---- MODULE Spec2Model ----
(***************************************************************************)
(* Model of thelittlehackers/utils/image_utils.py: the alpha flattener     *)
(* convert_image_to_rgb_mode, the resize/crop planner resize_image and the *)
(* generator generate_image_variants.                                      *)
(*                                                                         *)
(* An image is a record [id, mode, size]: the identity of the object, its  *)
(* pixel mode (a sequence of characters, so that mode[:-1] is a slice) and *)
(* its (width, height).  Coordinates of the crop box are kept in HALF      *)
(* PIXELS (twice their value), because the centred offset                  *)
(* (extent - destination) / 2 is a true division and may end in .5.        *)
(***************************************************************************)
EXTENDS Integers, Sequences, FiniteSets, TLC

VARIABLES
    pc,                         \* position of the call: "call", "returned", "raised", "running", "exhausted"
    image,                      \* the image argument
    fill_color,                 \* argument of convert_image_to_rgb_mode
    canvas_size,                \* argument of resize_image
    crop_alignment,             \* argument of resize_image / generate_image_variants
    require_cropping,           \* argument
    require_match_orientation,  \* argument
    variant_sizes,              \* argument of generate_image_variants
    ret,                        \* what the call returned (None until it returns)
    yielded                     \* the pairs the generator has yielded so far

vars == <<pc, image, fill_color, canvas_size, crop_alignment, require_cropping,
          require_match_orientation, variant_sizes, ret, yielded>>

(***************************************************************************)
(* Bounds of the model.                                                    *)
(***************************************************************************)
MaxDim == 9          \* widths and heights of resize_image calls are in 1..MaxDim
MaxFlatDim == 3      \* widths and heights of convert_image_to_rgb_mode calls
MaxVariants == 2     \* longest variant_sizes sequence
VariantDims == {1, 2}   \* widths and heights used by the generator's calls

None == "None"

(***************************************************************************)
(* Enumerations.  StrEnum with auto() gives each member its lower-cased    *)
(* name as value.                                                          *)
(***************************************************************************)
CENTER == "center"
LEFT_OR_TOP == "left_or_top"
RIGHT_OR_BOTTOM == "right_or_bottom"
ImageCropAlignment == {CENTER, LEFT_OR_TOP, RIGHT_OR_BOTTOM}

ImageVariant == {"large", "medium", "small", "thumbnail"}

\* The default of resize_image's crop_alignment is written
\* ImageCropAlignment.center: no member has that name, and since the
\* enumeration derives from str the attribute resolves to the method
\* str.center.  It is the value the parameter has when the caller omits it.
ResizeDefaultAlignment == "<method 'center' of 'str' objects>"

(***************************************************************************)
(* Pixel modes, as sequences of characters.                                *)
(***************************************************************************)
Modes ==
    { <<"1">>, <<"L">>, <<"P">>, <<"R","G","B">>, <<"R","G","B","A">>,
      <<"C","M","Y","K">>, <<"Y","C","b","C","r">>, <<"L","A","B">>,
      <<"H","S","V">>, <<"I">>, <<"F">>, <<"L","A">>, <<"P","A">>,
      <<"R","G","B","X">>, <<"R","G","B","a">>, <<"L","a">>,
      <<"I",";","1","6">> }

FillColors == { <<255, 255, 255>>, <<0, 0, 0>> }

(***************************************************************************)
(* convert_image_to_rgb_mode                                               *)
(***************************************************************************)
\* The modes line 133 treats as carrying transparency.
FlattenedModes == { <<"R","G","B","A">>, <<"L","A">> }

\* mode[:-1]
ModeWithoutLast(mode) == SubSeq(mode, 1, Len(mode) - 1)

\* Image.new(mode, size, color): a fresh object.
NewImage(mode, size) == [id |-> 1, mode |-> mode, size |-> size]

ConvertImageToRgbMode(img, color) ==
    IF img.mode \notin FlattenedModes
    THEN img
    ELSE NewImage(ModeWithoutLast(img.mode), img.size)

(***************************************************************************)
(* Arithmetic of resize_image.  An aspect ratio w / float(h) is the pair   *)
(* <<w, h>>; binary64 division is correctly rounded, hence monotonic, and  *)
(* two ratios of integers this small that differ as rationals differ as    *)
(* doubles: comparisons are comparisons of the rationals.                  *)
(***************************************************************************)
Aspect(w, h) == <<w, h>>

Greater(a, b) == a[1] * b[2] > b[1] * a[2]

One == <<1, 1>>

\* The operands (n, w, h), within 1..13, for which the binary64 value of
\* n / (w / float(h)) lies below the integer n*h/w that the division gives
\* exactly: 9 / 7.0 rounds up to 0x1.4924924924925p+0, and 9 divided by it
\* rounds to 6.999999999999999.  No product n * (w / float(h)) in that range
\* falls below its exact integer value.
Binary64Shortfall == { <<9, 9, 7>> }

\* Mutant of TruncMul: round(n * a) in place of int(n * a).
RoundMul(n, a) == (2 * n * a[1] + a[2]) \div (2 * a[2])

\* int(n * a), a = w / float(h)
TruncMul(n, a) == (n * a[1]) \div a[2]

\* Mutant of TruncDiv: int(n * a) in place of int(n / a).
TruncDivAsMul(n, a) == (n * a[1]) \div a[2]

\* int(n / a), a = w / float(h)
TruncDiv(n, a) ==
    LET exact == (n * a[2]) \div a[1]
    IN  IF <<n, a[1], a[2]>> \in Binary64Shortfall THEN exact - 1 ELSE exact

\* Mutant of OrientationDiffers: the second alternative lacks its
\* comparison with canvas_aspect.
OrientationDiffersLoose(source_aspect, canvas_aspect) ==
    \/ Greater(source_aspect, One) /\ Greater(One, canvas_aspect)
    \/ Greater(One, source_aspect)

\* source_aspect > 1.0 > canvas_aspect or source_aspect < 1.0 < canvas_aspect
OrientationDiffers(source_aspect, canvas_aspect) ==
    \/ Greater(source_aspect, One) /\ Greater(One, canvas_aspect)
    \/ Greater(One, source_aspect) /\ Greater(canvas_aspect, One)

\* Mutant of Offset: the subtractions have their operands reversed.
OffsetReversed(alignment, extent, destination) ==
    CASE alignment = LEFT_OR_TOP     -> 0
      [] alignment = RIGHT_OR_BOTTOM -> 2 * (destination - extent)
      [] alignment = CENTER          -> destination - extent

\* Mutant of Offset: the cases LEFT_OR_TOP and RIGHT_OR_BOTTOM are exchanged.
OffsetSwapped(alignment, extent, destination) ==
    CASE alignment = LEFT_OR_TOP     -> 2 * (extent - destination)
      [] alignment = RIGHT_OR_BOTTOM -> 0
      [] alignment = CENTER          -> extent - destination

\* Whether one of the cases of the match statement binds offset.
OffsetBound(alignment) ==
    alignment \in {LEFT_OR_TOP, RIGHT_OR_BOTTOM, CENTER}

\* The match statement: the offset, in half pixels.
Offset(alignment, extent, destination) ==
    CASE alignment = LEFT_OR_TOP     -> 0
      [] alignment = RIGHT_OR_BOTTOM -> 2 * (extent - destination)
      [] alignment = CENTER          -> extent - destination

\* The box of the require_cropping branch, in half pixels.
CropBox(source_width, source_height, source_aspect, canvas_aspect, alignment) ==
    IF Greater(source_aspect, canvas_aspect)
    THEN LET destination_width == TruncMul(source_height, canvas_aspect)
             offset == Offset(alignment, source_width, destination_width)
         IN  <<offset, 0, offset + 2 * destination_width, 2 * source_height>>
    ELSE LET destination_height == TruncDiv(source_width, canvas_aspect)
             offset == Offset(alignment, source_height, destination_height)
         IN  <<0, offset, 2 * source_width, 2 * destination_height + offset>>

\* The box of the other branch, in half pixels.
FitBox(source_width, source_height, source_aspect, canvas_aspect) ==
    IF Greater(canvas_aspect, source_aspect)
    THEN LET destination_width == TruncMul(source_height, canvas_aspect)
             offset == source_width - destination_width
         IN  <<offset, 0, 2 * source_width - offset, 2 * source_height>>
    ELSE LET destination_height == TruncDiv(source_width, canvas_aspect)
             offset == source_height - destination_height
         IN  <<0, offset, 2 * source_width, 2 * source_height - offset>>

\* resize_image.  The result tells whether the call raised (offset read
\* before any case of the match bound it); otherwise it carries the canvas
\* after the orientation swap, the box given to image.crop and the size of
\* the image that cropped_image.resize returns.
ResizeImage(size, canvas, alignment, cropping, match_orientation) ==
    LET source_width == size[1]
        source_height == size[2]
        source_aspect == Aspect(source_width, source_height)
        swap == /\ match_orientation
                /\ OrientationDiffers(source_aspect, Aspect(canvas[1], canvas[2]))
        canvas_width == IF swap THEN canvas[2] ELSE canvas[1]
        canvas_height == IF swap THEN canvas[1] ELSE canvas[2]
        canvas_aspect == Aspect(canvas_width, canvas_height)
    IN  IF cropping /\ ~OffsetBound(alignment)
        THEN [raised |-> TRUE]
        ELSE [raised |-> FALSE,
              canvas_width |-> canvas_width,
              canvas_height |-> canvas_height,
              box |-> IF cropping
                      THEN CropBox(source_width, source_height, source_aspect,
                                   canvas_aspect, alignment)
                      ELSE FitBox(source_width, source_height, source_aspect,
                                  canvas_aspect),
              size |-> <<canvas_width, canvas_height>>]

(***************************************************************************)
(* Specification of a call of resize_image.                                *)
(***************************************************************************)
Dims == 1 .. MaxDim

Init ==
    /\ pc = "call"
    /\ image \in [id : {0}, mode : {<<"R","G","B">>}, size : Dims \X Dims]
    /\ canvas_size \in Dims \X Dims
    /\ crop_alignment \in ImageCropAlignment \cup {ResizeDefaultAlignment}
    /\ require_cropping \in BOOLEAN
    /\ require_match_orientation \in BOOLEAN
    /\ fill_color = None
    /\ variant_sizes = None
    /\ ret = None
    /\ yielded = None

Resize ==
    /\ pc = "call"
    /\ ret' = ResizeImage(image.size, canvas_size, crop_alignment,
                          require_cropping, require_match_orientation)
    /\ pc' = IF ret'.raised THEN "raised" ELSE "returned"
    /\ UNCHANGED <<image, fill_color, canvas_size, crop_alignment, require_cropping,
                   require_match_orientation, variant_sizes, yielded>>

Next == Resize

Spec == Init /\ [][Next]_vars

(***************************************************************************)
(* Specification of a call of convert_image_to_rgb_mode.                   *)
(***************************************************************************)
FlatDims == 1 .. MaxFlatDim

InitConvert ==
    /\ pc = "call"
    /\ image \in [id : {0}, mode : Modes, size : FlatDims \X FlatDims]
    /\ fill_color \in FillColors
    /\ canvas_size = None
    /\ crop_alignment = None
    /\ require_cropping = None
    /\ require_match_orientation = None
    /\ variant_sizes = None
    /\ ret = None
    /\ yielded = None

Convert ==
    /\ pc = "call"
    /\ ret' = ConvertImageToRgbMode(image, fill_color)
    /\ pc' = "returned"
    /\ UNCHANGED <<image, fill_color, canvas_size, crop_alignment, require_cropping,
                   require_match_orientation, variant_sizes, yielded>>

NextConvert == Convert

SpecConvert == InitConvert /\ [][NextConvert]_vars

(***************************************************************************)
(* Specification of a consumer draining generate_image_variants.           *)
(***************************************************************************)
ImageVariantSize == [variant : ImageVariant, size : VariantDims \X VariantDims]

VariantSequences ==
    UNION { [1 .. n -> ImageVariantSize] : n \in 0 .. MaxVariants }

InitVariants ==
    /\ pc = "running"
    /\ image \in [id : {0}, mode : {<<"R","G","B">>},
                  size : VariantDims \X VariantDims]
    /\ variant_sizes \in VariantSequences
    /\ crop_alignment \in ImageCropAlignment
    /\ require_cropping \in BOOLEAN
    /\ require_match_orientation \in BOOLEAN
    /\ fill_color = None
    /\ canvas_size = None
    /\ ret = None
    /\ yielded = <<>>

\* Mutant of Yield: the entries are taken from the end of variant_sizes.
YieldReversed ==
    /\ pc = "running"
    /\ Len(yielded) < Len(variant_sizes)
    /\ LET variant_size == variant_sizes[Len(variant_sizes) - Len(yielded)]
           resized == ResizeImage(image.size, variant_size.size, crop_alignment,
                                  require_cropping, require_match_orientation)
       IN  IF resized.raised
           THEN /\ pc' = "raised"
                /\ yielded' = yielded
           ELSE /\ pc' = "running"
                /\ yielded' = Append(yielded, <<variant_size.variant, resized>>)
    /\ UNCHANGED <<image, fill_color, canvas_size, crop_alignment, require_cropping,
                   require_match_orientation, variant_sizes, ret>>

\* One turn of the for loop: the next entry is resized and the pair yielded.
Yield ==
    /\ pc = "running"
    /\ Len(yielded) < Len(variant_sizes)
    /\ LET variant_size == variant_sizes[Len(yielded) + 1]
           resized == ResizeImage(image.size, variant_size.size, crop_alignment,
                                  require_cropping, require_match_orientation)
       IN  IF resized.raised
           THEN /\ pc' = "raised"
                /\ yielded' = yielded
           ELSE /\ pc' = "running"
                /\ yielded' = Append(yielded, <<variant_size.variant, resized>>)
    /\ UNCHANGED <<image, fill_color, canvas_size, crop_alignment, require_cropping,
                   require_match_orientation, variant_sizes, ret>>

\* The iterable is exhausted: the generator returns.
Exhaust ==
    /\ pc = "running"
    /\ Len(yielded) = Len(variant_sizes)
    /\ pc' = "exhausted"
    /\ UNCHANGED <<image, fill_color, canvas_size, crop_alignment, require_cropping,
                   require_match_orientation, variant_sizes, ret, yielded>>

NextVariants == Yield \/ Exhaust

SpecVariants == InitVariants /\ [][NextVariants]_vars

(***************************************************************************)
(* Properties.  The quantities below are stated from the arguments alone,  *)
(* in integers, and not through the operators of the model.                *)
(***************************************************************************)
SourceWidth == image.size[1]
SourceHeight == image.size[2]

\* Source and canvas disagree on orientation: one is landscape, the other portrait.
Disagree(w, h) ==
    \/ SourceWidth > SourceHeight /\ w < h
    \/ SourceWidth < SourceHeight /\ w > h

\* The canvas after the orientation swap, for a requested canvas (w, h).
Effective(w, h) ==
    IF require_match_orientation /\ Disagree(w, h) THEN <<h, w>> ELSE <<w, h>>

EffectiveWidth == Effective(canvas_size[1], canvas_size[2])[1]
EffectiveHeight == Effective(canvas_size[1], canvas_size[2])[2]

\* source_aspect > canvas_aspect, the canvas being the swapped one
SourceWider == SourceWidth * EffectiveHeight > SourceHeight * EffectiveWidth

SameAspect == SourceWidth * EffectiveHeight = SourceHeight * EffectiveWidth

FullFrame == <<0, 0, 2 * SourceWidth, 2 * SourceHeight>>

Abs(x) == IF x < 0 THEN -x ELSE x

\* round(n / d) as Python rounds: to nearest, ties to even.
RoundQuotient(n, d) ==
    LET q == n \div d
        r == n % d
    IN  IF 2 * r < d THEN q
        ELSE IF 2 * r > d THEN q + 1
        ELSE IF q % 2 = 0 THEN q ELSE q + 1

Returned == pc = "returned"

\* Width and height of the box, in half pixels.
BoxWidth == ret.box[3] - ret.box[1]
BoxHeight == ret.box[4] - ret.box[2]

C2_DefaultAlignmentIsCenter ==
    (pc # "call" /\ require_cropping /\ crop_alignment = ResizeDefaultAlignment) =>
        /\ Returned
        /\ ret.box = ResizeImage(image.size, canvas_size, CENTER, require_cropping,
                                 require_match_orientation).box

(***************************************************************************)
(* C5                                                                      *)
(***************************************************************************)
\* C5: the returned image has the requested canvas size, width and height
\* swapped exactly when require_match_orientation is set and source and
\* canvas disagree on orientation.
C5_ReturnedSize ==
    Returned =>
        ret.size = IF require_match_orientation
                      /\ Disagree(canvas_size[1], canvas_size[2])
                   THEN <<canvas_size[2], canvas_size[1]>>
                   ELSE canvas_size

\* A portrait source with a landscape canvas, returned in portrait.
C5_Witness ==
    /\ Returned /\ require_match_orientation
    /\ image.size = <<2, 4>> /\ canvas_size = <<4, 2>>
    /\ ret.size = <<2, 4>>

(***************************************************************************)
(* C6                                                                      *)
(***************************************************************************)
\* C6: when cropping, LEFT_OR_TOP puts the left edge at 0 and
\* RIGHT_OR_BOTTOM the right edge at source_width if the source is
\* relatively wider than the canvas; otherwise they put the top edge at 0
\* and the bottom edge at source_height.
C6_AlignmentEdges ==
    (Returned /\ require_cropping) =>
        /\ (SourceWider /\ crop_alignment = LEFT_OR_TOP) => ret.box[1] = 0
        /\ (SourceWider /\ crop_alignment = RIGHT_OR_BOTTOM) =>
               ret.box[3] = 2 * SourceWidth
        /\ (~SourceWider /\ crop_alignment = LEFT_OR_TOP) => ret.box[2] = 0
        /\ (~SourceWider /\ crop_alignment = RIGHT_OR_BOTTOM) =>
               ret.box[4] = 2 * SourceHeight

\* A right-aligned crop that leaves columns out on the left.
C6_Witness ==
    /\ Returned /\ require_cropping /\ SourceWider
    /\ crop_alignment = RIGHT_OR_BOTTOM
    /\ ret.box[1] > 0 /\ ret.box[3] = 2 * SourceWidth

(***************************************************************************)
(* C7                                                                      *)
(***************************************************************************)
\* C7: when cropping, the box has the canvas aspect within one pixel: the
\* full source height and a width within 1 of
\* source_height * canvas_width / canvas_height if the source is relatively
\* wider, else the full source width and a height within 1 of
\* source_width * canvas_height / canvas_width.
C7_AspectWithinOnePixel ==
    (Returned /\ require_cropping) =>
        IF SourceWider
        THEN /\ BoxHeight = 2 * SourceHeight
             /\ Abs(BoxWidth * EffectiveHeight - 2 * SourceHeight * EffectiveWidth)
                    <= 2 * EffectiveHeight
        ELSE /\ BoxWidth = 2 * SourceWidth
             /\ Abs(BoxHeight * EffectiveWidth - 2 * SourceWidth * EffectiveHeight)
                    <= 2 * EffectiveWidth

\* A crop whose exact width is not a whole number of pixels.
C7_Witness ==
    /\ Returned /\ require_cropping /\ SourceWider
    /\ (SourceHeight * EffectiveWidth) % EffectiveHeight # 0
    /\ BoxWidth > 0

(***************************************************************************)
(* C8                                                                      *)
(***************************************************************************)
\* C8 as stated: the kept dimension is full and the other one is the
\* nearest integer to the exact quotient.
C8_CropSizeRounded ==
    (Returned /\ require_cropping) =>
        IF SourceWider
        THEN /\ BoxHeight = 2 * SourceHeight
             /\ BoxWidth = 2 * RoundQuotient(SourceHeight * EffectiveWidth,
                                             EffectiveHeight)
        ELSE /\ BoxWidth = 2 * SourceWidth
             /\ BoxHeight = 2 * RoundQuotient(SourceWidth * EffectiveHeight,
                                              EffectiveWidth)

\* Truncated(n, d, x): x is n / d cut to an integer as int() of the binary64
\* value cuts it: the floor of the quotient, or one below the quotient when
\* the quotient is a whole number that the double falls short of.
Truncated(n, d, x) ==
    IF n % d = 0 THEN x \in {n \div d, (n \div d) - 1} ELSE x = n \div d

\* C8 amended: the kept dimension is full and the other one is the quotient
\* truncated toward zero, not rounded to nearest.
C8_CropSizeTruncated ==
    (Returned /\ require_cropping) =>
        IF SourceWider
        THEN /\ BoxHeight = 2 * SourceHeight
             /\ \E x \in 0 .. SourceWidth :
                    /\ BoxWidth = 2 * x
                    /\ Truncated(SourceHeight * EffectiveWidth, EffectiveHeight, x)
        ELSE /\ BoxWidth = 2 * SourceWidth
             /\ \E x \in 0 .. SourceHeight :
                    /\ BoxHeight = 2 * x
                    /\ Truncated(SourceWidth * EffectiveHeight, EffectiveWidth, x)

\* 3x4 cropped to a 2x3 canvas: 4 * 2 / 3 = 2.67 is cut to 2.
C8_Witness ==
    /\ Returned /\ require_cropping /\ ~require_match_orientation
    /\ image.size = <<3, 4>> /\ canvas_size = <<2, 3>>
    /\ BoxWidth = 4

(***************************************************************************)
(* C9                                                                      *)
(***************************************************************************)
\* C9: when the source aspect equals the canvas aspect, the box is the full
\* source frame, for both values of require_cropping and every alignment.
C9_SameAspectFullFrame ==
    (Returned /\ SameAspect) => ret.box = FullFrame

(***************************************************************************)
(* C10                                                                     *)
(***************************************************************************)
\* C10: with require_cropping = false the box contains the whole source
\* frame, is symmetric about the source centre, and does not depend on
\* crop_alignment.
C10_FitContainsSource ==
    (Returned /\ ~require_cropping) =>
        /\ ret.box[1] <= 0 /\ ret.box[3] >= 2 * SourceWidth
        /\ ret.box[2] <= 0 /\ ret.box[4] >= 2 * SourceHeight
        /\ ret.box[1] + ret.box[3] = 2 * SourceWidth
        /\ ret.box[2] + ret.box[4] = 2 * SourceHeight
        /\ \A a \in ImageCropAlignment \cup {ResizeDefaultAlignment} :
               ResizeImage(image.size, canvas_size, a, require_cropping,
                           require_match_orientation).box = ret.box

(***************************************************************************)
(* C3 (checked under SpecVariants)                                         *)
(***************************************************************************)
Exhausted == pc = "exhausted"

\* C3 as stated: draining the generator yields len(variant_sizes) pairs, the
\* k-th with the label of the k-th entry and an image whose (width, height)
\* is the k-th entry's requested size, whatever the options.
C3_VariantsMatchRequestedSizes ==
    Exhausted =>
        /\ Len(yielded) = Len(variant_sizes)
        /\ \A k \in 1 .. Len(yielded) :
               /\ yielded[k][1] = variant_sizes[k].variant
               /\ yielded[k][2].size = variant_sizes[k].size

\* C3 amended: as stated, except that the k-th image has the k-th requested
\* size with width and height swapped when require_match_orientation is set
\* and the source and that entry disagree on orientation.
C3_VariantsMatchEffectiveSizes ==
    Exhausted =>
        /\ Len(yielded) = Len(variant_sizes)
        /\ \A k \in 1 .. Len(yielded) :
               /\ yielded[k][1] = variant_sizes[k].variant
               /\ yielded[k][2].size =
                      Effective(variant_sizes[k].size[1], variant_sizes[k].size[2])

\* Two entries with different labels, the first one swapped to portrait.
C3_Witness ==
    /\ Exhausted /\ require_match_orientation
    /\ image.size = <<1, 2>>
    /\ Len(variant_sizes) = 2
    /\ variant_sizes[1] = [variant |-> "large", size |-> <<2, 1>>]
    /\ variant_sizes[2] = [variant |-> "thumbnail", size |-> <<1, 1>>]
    /\ yielded[1][1] = "large" /\ yielded[1][2].size = <<1, 2>>
    /\ yielded[2][1] = "thumbnail" /\ yielded[2][2].size = <<1, 1>>

(***************************************************************************)
(* C4 (checked under SpecConvert)                                          *)
(***************************************************************************)
\* The pixel modes of the imaging library that carry an alpha channel.
AlphaModes ==
    { <<"R","G","B","A">>, <<"L","A">>, <<"P","A">>, <<"R","G","B","a">>, <<"L","a">> }

\* C4: whatever the mode of the input, the image returned by
\* convert_image_to_rgb_mode has a mode without an alpha channel.
C4_ReturnedModeHasNoAlpha ==
    Returned => ret.mode \notin AlphaModes

====
